---- MODULE Spec2Model ----
(***************************************************************************)
(* The EstateHub REST server (src/index.js) as a state machine.            *)
(*                                                                         *)
(* State: the five MongoDB collections and the requests in flight.  Every  *)
(* `await` of a handler is one step: the database call it waits for takes  *)
(* effect atomically and the JavaScript that follows it (up to the next    *)
(* await, or the response) runs in the same step.  Requests interleave at  *)
(* these steps only.  Any database call may fail (the driver rejects the   *)
(* promise).                                                               *)
(***************************************************************************)
EXTENDS Integers, FiniteSets, Sequences, TLC

VARIABLES users, properties, wishlists, reviews, offers, req

vars == <<users, properties, wishlists, reviews, offers, req>>

(* ------------------------------ bounds -------------------------------- *)
MaxReqs == 2
MaxUsers == 4
MaxProperties == 2
MaxWishlists == 2
MaxReviews == 2
MaxOffers == 2

Reqs == 1..MaxReqs
UserIds == 1..MaxUsers
PropertyIds == 1..MaxProperties
WishlistIds == 1..MaxWishlists
ReviewIds == 1..MaxReviews
OfferIds == 1..MaxOffers

(* ------------------------------ values -------------------------------- *)
Emails == {"admin@x", "agent@x", "buyer@x"}
Roles == {"user", "agent", "admin"}
PropertyStatuses == {"pending", "verified", "rejected"}
OfferStatuses == {"pending", "accepted", "rejected", "bought"}
PropertyRefs == {"P1", "P2"}
TransactionIds == {"tx123"}

\* A slot of a collection: never used, holding a document, or deleted.
Free == "free"
Live == "live"
Gone == "gone"

NoUser == [st |-> Free, email |-> "none", role |-> "none", uid |-> FALSE]
NoProperty == [st |-> Free, status |-> "none"]
NoOffer == [st |-> Free, propertyId |-> "none", status |-> "none", transactionId |-> "none"]

NoEntry == [st |-> Free]
LiveEntry == [st |-> Live]
GoneUser == [NoUser EXCEPT !.st = Gone]
GoneProperty == [NoProperty EXCEPT !.st = Gone]
GoneEntry == [st |-> Gone]

UserDoc(email, role, uid) == [st |-> Live, email |-> email, role |-> role, uid |-> uid]
PropertyDoc(status) == [st |-> Live, status |-> status]
OfferDoc(propertyId, status) ==
    [st |-> Live, propertyId |-> propertyId, status |-> status, transactionId |-> "none"]

\* req.body of the routes that read one.
NoBody == [email |-> "none", role |-> "none", uid |-> FALSE, propertyId |-> "none",
           status |-> "none", transactionId |-> "none"]
UserBodies == {[NoBody EXCEPT !.email = e, !.role = ro, !.uid = TRUE] :
                   e \in Emails, ro \in Roles}
PropertyBodies == {[NoBody EXCEPT !.status = s] : s \in PropertyStatuses}
OfferBodies == {[NoBody EXCEPT !.propertyId = p, !.status = s] :
                    p \in PropertyRefs, s \in OfferStatuses}
BoughtBodies == {[NoBody EXCEPT !.transactionId = t] : t \in TransactionIds}

\* req.decoded: the claims jwt.sign put in the token (POST /jwt signs the email
\* and role of its body).  The tokens in use are the ones the three registered
\* users were issued at login; a token is good for 30 days, whatever happens
\* to its user's record in the meantime.
NoClaims == [email |-> "none", role |-> "none"]
Claims == {[email |-> "admin@x", role |-> "admin"],
           [email |-> "agent@x", role |-> "agent"],
           [email |-> "buyer@x", role |-> "user"]}

\* A token: the payload jwt.sign was given, the key it was signed with, and
\* whether its 30 days have passed by the time it is presented.
JwtSecret == "JWT_SECRET"
Keys == {JwtSecret, "another key"}
NoToken == [payload |-> NoClaims, key |-> "none", expired |-> FALSE]

\* POST /jwt: jwt.sign({email: user.email, role: user.role}, key, {expiresIn}).
jwtSign(user, key) ==
    [payload |-> [email |-> user.email, role |-> user.role], key |-> key,
     expired |-> FALSE]
Expire(token) == [token EXCEPT !.expired = TRUE]

\* jwt.verify(token, key, (err, decoded) => ...): the signature must be the
\* key's and the token must not have expired.
jwtVerify_IgnoreExpiration(token, key) ==
    IF token.key = key THEN [err |-> FALSE, decoded |-> token.payload]
    ELSE [err |-> TRUE, decoded |-> NoClaims]
jwtVerify(token, key) ==
    IF token.key = key /\ ~token.expired
    THEN [err |-> FALSE, decoded |-> token.payload]
    ELSE [err |-> TRUE, decoded |-> NoClaims]

\* The tokens clients present: the ones POST /jwt issued to the three users,
\* the agent's after its expiry, and an admin token signed with another key.
Tokens ==
    {jwtSign(c, JwtSecret) : c \in Claims}
        \cup {Expire(jwtSign([email |-> "agent@x", role |-> "agent"], JwtSecret))}
        \cup {jwtSign([email |-> "admin@x", role |-> "admin"], k) : k \in Keys \ {JwtSecret}}

\* req.headers.authorization: missing, "Bearer <token>", or a value with no
\* second word (split(" ")[1] is undefined).
NoHeader == [present |-> FALSE, token |-> NoToken]
Bearer(token) == [present |-> TRUE, token |-> token]
Headers == {NoHeader, Bearer(NoToken)} \cup {Bearer(t) : t \in Tokens}

NoId == 0

IdleReq == [pc |-> "idle", route |-> "none", authorization |-> NoHeader,
            decoded |-> NoClaims, id |-> NoId,
            body |-> NoBody, propertyId |-> "none", modifiedCount |-> 0,
            firebaseErr |-> FALSE, status |-> 0, by |-> "none"]

(* --------------------------- collections ------------------------------ *)
\* insertOne: the document goes to the first slot never used (a fresh _id).
FreeSlots(coll) == {i \in DOMAIN coll : coll[i].st = Free}
HasFreeSlot(coll) == FreeSlots(coll) # {}
NewId(coll) == CHOOSE i \in FreeSlots(coll) : \A j \in FreeSlots(coll) : i <= j
insertOne(coll, doc) == [coll EXCEPT ![NewId(coll)] = doc]

\* {_id: new ObjectId(id)} matches the live document of that id, if any.
Matches(coll, id) == id \in DOMAIN coll /\ coll[id].st = Live

\* updateOne({_id}, {$set: {status}}) and its modifiedCount.
SetStatus_IfPending(coll, id, status) ==
    IF Matches(coll, id) /\ coll[id].status = "pending"
    THEN [coll EXCEPT ![id].status = status] ELSE coll
SetStatus(coll, id, status) ==
    IF Matches(coll, id) THEN [coll EXCEPT ![id].status = status] ELSE coll
ModifiedCount(before, after) == Cardinality({i \in DOMAIN before : before[i] # after[i]})

\* deleteOne({_id}) and its deletedCount.
deleteOne(coll, id, gone) == IF Matches(coll, id) THEN [coll EXCEPT ![id] = gone] ELSE coll
DeletedCount(coll, id) == IF Matches(coll, id) THEN 1 ELSE 0

\* usersCollection.findOne({email}): the first document in natural order.
UsersWithEmail(email) == {i \in UserIds : users[i].st = Live /\ users[i].email = email}
findOneByEmail(email) ==
    IF UsersWithEmail(email) = {} THEN NoUser
    ELSE users[CHOOSE i \in UsersWithEmail(email) : \A j \in UsersWithEmail(email) : i <= j]

(* ---------------------------- responses ------------------------------- *)
\* res.status(code).send(...) by the handler or middleware itself.  What the
\* handler wrote to the log on its way (firebaseErr) stays written.
Respond(r, code) ==
    req' = [req EXCEPT ![r] = [IdleReq EXCEPT !.pc = "done", !.route = req[r].route,
                                               !.firebaseErr = req[r].firebaseErr,
                                               !.status = code, !.by = "handler"]]

\* A rejected promise no try/catch of the handler covers.
Escape(r) ==
    req' = [req EXCEPT ![r] = [IdleReq EXCEPT !.pc = "escaped", !.route = req[r].route]]

Goto(r, pc) == req' = [req EXCEPT ![r].pc = pc]

(* ------------------------ token and role guards ----------------------- *)
\* The routes registered with verifyAdmin, with verifyAgent, and without
\* verifyToken.
AdminRoutes == {"PATCH /users/admin/:id", "PATCH /users/agent/:id", "DELETE /users/:id"}
AgentRoutes == {"GET /agent-sold-properties/:agentEmail", "PATCH /offers/accept/:id",
                "PATCH /offers/reject/:id"}
OpenRoutes == {"POST /users"}

\* The first await of the route's own handler.
Handler(route) ==
    CASE route = "POST /users" -> "users.findOne"
      [] route = "PATCH /users/admin/:id" -> "admin.updateOne"
      [] route = "PATCH /users/agent/:id" -> "agent.updateOne"
      [] route = "DELETE /users/:id" -> "delete.findOne"
      [] route = "GET /agent-sold-properties/:agentEmail" -> "sold.find"
      [] route = "POST /properties" -> "properties.insertOne"
      [] route = "PUT /properties/:id" -> "put.updateOne"
      [] route = "DELETE /properties/:id" -> "properties.deleteOne"
      [] route = "PATCH /properties/verify/:id" -> "verify.updateOne"
      [] route = "PATCH /properties/reject/:id" -> "rejectProperty.updateOne"
      [] route = "POST /wishlist" -> "wishlist.insertOne"
      [] route = "DELETE /wishlist/:id" -> "wishlist.deleteOne"
      [] route = "POST /reviews" -> "reviews.insertOne"
      [] route = "DELETE /reviews/:id" -> "reviews.deleteOne"
      [] route = "POST /offers" -> "offers.insertOne"
      [] route = "PATCH /offers/accept/:id" -> "accept.findOne"
      [] route = "PATCH /offers/reject/:id" -> "reject.updateOne"
      [] route = "PATCH /offers/:id" -> "bought.updateOne"

AfterToken(route) ==
    IF route \in AdminRoutes THEN "verifyAdmin"
    ELSE IF route \in AgentRoutes THEN "verifyAgent"
    ELSE Handler(route)

\* verifyToken, run synchronously when the request arrives.
verifyToken(r, route, header, id, body) ==
    LET arrived == [IdleReq EXCEPT !.route = route, !.authorization = header,
                                   !.id = id, !.body = body]
        refused == [IdleReq EXCEPT !.pc = "done", !.route = route,
                                   !.authorization = header, !.by = "handler"]
        verified == jwtVerify(header.token, JwtSecret) IN
    IF ~header.present
    THEN req' = [req EXCEPT ![r] = [refused EXCEPT !.status = 401]]
    ELSE IF verified.err
    THEN req' = [req EXCEPT ![r] = [refused EXCEPT !.status = 403]]
    ELSE req' = [req EXCEPT ![r] = [arrived EXCEPT !.pc = AfterToken(route),
                                                     !.decoded = verified.decoded]]

\* A request arrives on a free connection.
Receive(r, route, header, id, body) ==
    /\ req[r].pc = "idle"
    /\ IF route \in OpenRoutes
       THEN req' = [req EXCEPT ![r] = [IdleReq EXCEPT !.pc = Handler(route),
                                                       !.route = route, !.id = id,
                                                       !.body = body]]
       ELSE verifyToken(r, route, header, id, body)

\* user?.role of the guards, user = findOne({email: req.decoded.email});
\* "none" stands for undefined (no such user).
GuardRole_FromToken(decoded) == decoded.role
GuardRole(decoded) == findOneByEmail(decoded.email).role

\* Neither guard has a try/catch: a failed findOne rejects the middleware.
verifyAdmin(r) ==
    /\ req[r].pc = "verifyAdmin"
    /\ \E ok \in BOOLEAN :
          IF ~ok THEN Escape(r)
          ELSE IF GuardRole(req[r].decoded) # "admin"
          THEN Respond(r, 403)
          ELSE Goto(r, Handler(req[r].route))
    /\ UNCHANGED <<users, properties, wishlists, reviews, offers>>

verifyAgent(r) ==
    /\ req[r].pc = "verifyAgent"
    /\ \E ok \in BOOLEAN :
          IF ~ok THEN Escape(r)
          ELSE IF GuardRole(req[r].decoded) # "agent"
          THEN Respond(r, 403)
          ELSE Goto(r, Handler(req[r].route))
    /\ UNCHANGED <<users, properties, wishlists, reviews, offers>>

(* ------------------------------- users -------------------------------- *)
PostUsers(r) ==
    /\ \E b \in UserBodies : Receive(r, "POST /users", NoHeader, NoId, b)
    /\ UNCHANGED <<users, properties, wishlists, reviews, offers>>

UsersFindOne(r) ==
    /\ req[r].pc = "users.findOne"
    /\ \E ok \in BOOLEAN :
          IF ~ok THEN Respond(r, 500)
          ELSE IF findOneByEmail(req[r].body.email).st = Live
          THEN Respond(r, 400)
          ELSE Goto(r, "users.insertOne")
    /\ UNCHANGED <<users, properties, wishlists, reviews, offers>>

UsersInsertOne(r) ==
    /\ req[r].pc = "users.insertOne"
    /\ HasFreeSlot(users)
    /\ \E ok \in BOOLEAN :
          IF ok
          THEN /\ users' = insertOne(users, UserDoc(req[r].body.email, req[r].body.role,
                                                     req[r].body.uid))
               /\ Respond(r, 200)
          ELSE /\ Respond(r, 500)
               /\ UNCHANGED users
    /\ UNCHANGED <<properties, wishlists, reviews, offers>>

\* updateOne({_id}, {$set: {role}}); matchedCount is 1 when the id matches.
SetRole(coll, id, role) ==
    IF Matches(coll, id) THEN [coll EXCEPT ![id].role = role] ELSE coll

PatchUsersAdmin(r) ==
    /\ \E h \in Headers, id \in UserIds :
          Receive(r, "PATCH /users/admin/:id", h, id, NoBody)
    /\ UNCHANGED <<users, properties, wishlists, reviews, offers>>

AdminUpdateOne(r) ==
    /\ req[r].pc = "admin.updateOne"
    /\ \E ok \in BOOLEAN :
          IF ok
          THEN /\ users' = SetRole(users, req[r].id, "admin")
               /\ IF ~Matches(users, req[r].id) THEN Respond(r, 404) ELSE Respond(r, 200)
          ELSE /\ Respond(r, 500)
               /\ UNCHANGED users
    /\ UNCHANGED <<properties, wishlists, reviews, offers>>

PatchUsersAgent(r) ==
    /\ \E h \in Headers, id \in UserIds :
          Receive(r, "PATCH /users/agent/:id", h, id, NoBody)
    /\ UNCHANGED <<users, properties, wishlists, reviews, offers>>

AgentUpdateOne(r) ==
    /\ req[r].pc = "agent.updateOne"
    /\ \E ok \in BOOLEAN :
          IF ok
          THEN /\ users' = SetRole(users, req[r].id, "agent")
               /\ IF ~Matches(users, req[r].id) THEN Respond(r, 404) ELSE Respond(r, 200)
          ELSE /\ Respond(r, 500)
               /\ UNCHANGED users
    /\ UNCHANGED <<properties, wishlists, reviews, offers>>

DeleteUsers(r) ==
    /\ \E h \in Headers, id \in UserIds :
          Receive(r, "DELETE /users/:id", h, id, NoBody)
    /\ UNCHANGED <<users, properties, wishlists, reviews, offers>>

\* Step 1: find the user (to get its uid).
DeleteFindOne(r) ==
    /\ req[r].pc = "delete.findOne"
    /\ \E ok \in BOOLEAN :
          IF ~ok THEN Respond(r, 500)
          ELSE IF ~Matches(users, req[r].id) THEN Respond(r, 404)
          ELSE IF users[req[r].id].uid THEN Goto(r, "delete.deleteUser")
          ELSE Goto(r, "delete.deleteOne")
    /\ UNCHANGED <<users, properties, wishlists, reviews, offers>>

\* Step 2: admin.auth().deleteUser(uid) inside its own try/catch: a failure
\* is written to the log (console.error) and the handler goes on.
DeleteFirebaseUser_Surfaced(r) ==
    /\ req[r].pc = "delete.deleteUser"
    /\ \E ok \in BOOLEAN :
          IF ok THEN Goto(r, "delete.deleteOne") ELSE Respond(r, 500)
    /\ UNCHANGED <<users, properties, wishlists, reviews, offers>>
DeleteFirebaseUser(r) ==
    /\ req[r].pc = "delete.deleteUser"
    /\ \E ok \in BOOLEAN :
          req' = [req EXCEPT ![r].pc = "delete.deleteOne", ![r].firebaseErr = ~ok]
    /\ UNCHANGED <<users, properties, wishlists, reviews, offers>>

\* The response DELETE /users/:id sends after its deleteOne: the result of the
\* call is not looked at.
DeleteUsersResponse(deletedCount) == 200

\* Step 3: delete the user's record.
DeleteDeleteOne(r) ==
    /\ req[r].pc = "delete.deleteOne"
    /\ \E ok \in BOOLEAN :
          IF ok
          THEN /\ users' = deleteOne(users, req[r].id, GoneUser)
               /\ Respond(r, DeleteUsersResponse(DeletedCount(users, req[r].id)))
          ELSE /\ Respond(r, 500)
               /\ UNCHANGED users
    /\ UNCHANGED <<properties, wishlists, reviews, offers>>

GetAgentSold(r) ==
    /\ \E h \in Headers :
          Receive(r, "GET /agent-sold-properties/:agentEmail", h, NoId, NoBody)
    /\ UNCHANGED <<users, properties, wishlists, reviews, offers>>

SoldFind(r) ==
    /\ req[r].pc = "sold.find"
    /\ \E ok \in BOOLEAN : IF ok THEN Respond(r, 200) ELSE Respond(r, 500)
    /\ UNCHANGED <<users, properties, wishlists, reviews, offers>>

(* ----------------------------- properties ----------------------------- *)
PostProperties(r) ==
    /\ \E h \in Headers, b \in PropertyBodies :
          Receive(r, "POST /properties", h, NoId, b)
    /\ UNCHANGED <<users, properties, wishlists, reviews, offers>>

\* No try/catch around the insert.
PropertiesInsertOne(r) ==
    /\ req[r].pc = "properties.insertOne"
    /\ HasFreeSlot(properties)
    /\ \E ok \in BOOLEAN :
          IF ok
          THEN /\ properties' = insertOne(properties, PropertyDoc(req[r].body.status))
               /\ Respond(r, 200)
          ELSE /\ Escape(r)
               /\ UNCHANGED properties
    /\ UNCHANGED <<users, wishlists, reviews, offers>>

PutProperties(r) ==
    /\ \E h \in Headers, id \in PropertyIds, b \in PropertyBodies :
          Receive(r, "PUT /properties/:id", h, id, b)
    /\ UNCHANGED <<users, properties, wishlists, reviews, offers>>

\* updateOne({_id}, {$set: propertyData})
PutUpdateOne(r) ==
    /\ req[r].pc = "put.updateOne"
    /\ \E ok \in BOOLEAN :
          IF ok
          THEN /\ properties' = SetStatus(properties, req[r].id, req[r].body.status)
               /\ IF ModifiedCount(properties, properties') = 0
                  THEN Respond(r, 404) ELSE Respond(r, 200)
          ELSE /\ Respond(r, 500)
               /\ UNCHANGED properties
    /\ UNCHANGED <<users, wishlists, reviews, offers>>

DeleteProperties(r) ==
    /\ \E h \in Headers, id \in PropertyIds :
          Receive(r, "DELETE /properties/:id", h, id, NoBody)
    /\ UNCHANGED <<users, properties, wishlists, reviews, offers>>

PropertiesDeleteOne(r) ==
    /\ req[r].pc = "properties.deleteOne"
    /\ \E ok \in BOOLEAN :
          IF ok
          THEN /\ properties' = deleteOne(properties, req[r].id, GoneProperty)
               /\ IF DeletedCount(properties, req[r].id) = 0
                  THEN Respond(r, 404) ELSE Respond(r, 200)
          ELSE /\ Respond(r, 500)
               /\ UNCHANGED properties
    /\ UNCHANGED <<users, wishlists, reviews, offers>>

PatchPropertiesVerify(r) ==
    /\ \E h \in Headers, id \in PropertyIds :
          Receive(r, "PATCH /properties/verify/:id", h, id, NoBody)
    /\ UNCHANGED <<users, properties, wishlists, reviews, offers>>

\* res.send(result), whatever the result counts.
VerifyUpdateOne(r) ==
    /\ req[r].pc = "verify.updateOne"
    /\ \E ok \in BOOLEAN :
          IF ok
          THEN /\ properties' = SetStatus(properties, req[r].id, "verified")
               /\ Respond(r, 200)
          ELSE /\ Respond(r, 500)
               /\ UNCHANGED properties
    /\ UNCHANGED <<users, wishlists, reviews, offers>>

PatchPropertiesReject(r) ==
    /\ \E h \in Headers, id \in PropertyIds :
          Receive(r, "PATCH /properties/reject/:id", h, id, NoBody)
    /\ UNCHANGED <<users, properties, wishlists, reviews, offers>>

RejectPropertyUpdateOne(r) ==
    /\ req[r].pc = "rejectProperty.updateOne"
    /\ \E ok \in BOOLEAN :
          IF ok
          THEN /\ properties' = SetStatus(properties, req[r].id, "rejected")
               /\ Respond(r, 200)
          ELSE /\ Respond(r, 500)
               /\ UNCHANGED properties
    /\ UNCHANGED <<users, wishlists, reviews, offers>>

(* ------------------------ wishlists and reviews ----------------------- *)
PostWishlist(r) ==
    /\ \E h \in Headers : Receive(r, "POST /wishlist", h, NoId, NoBody)
    /\ UNCHANGED <<users, properties, wishlists, reviews, offers>>

WishlistInsertOne(r) ==
    /\ req[r].pc = "wishlist.insertOne"
    /\ HasFreeSlot(wishlists)
    /\ \E ok \in BOOLEAN :
          IF ok
          THEN /\ wishlists' = insertOne(wishlists, LiveEntry)
               /\ Respond(r, 201)
          ELSE /\ Respond(r, 500)
               /\ UNCHANGED wishlists
    /\ UNCHANGED <<users, properties, reviews, offers>>

DeleteWishlist(r) ==
    /\ \E h \in Headers, id \in WishlistIds :
          Receive(r, "DELETE /wishlist/:id", h, id, NoBody)
    /\ UNCHANGED <<users, properties, wishlists, reviews, offers>>

WishlistDeleteOne(r) ==
    /\ req[r].pc = "wishlist.deleteOne"
    /\ \E ok \in BOOLEAN :
          IF ok
          THEN /\ wishlists' = deleteOne(wishlists, req[r].id, GoneEntry)
               /\ IF DeletedCount(wishlists, req[r].id) > 0
                  THEN Respond(r, 200) ELSE Respond(r, 404)
          ELSE /\ Respond(r, 500)
               /\ UNCHANGED wishlists
    /\ UNCHANGED <<users, properties, reviews, offers>>

PostReviews(r) ==
    /\ \E h \in Headers : Receive(r, "POST /reviews", h, NoId, NoBody)
    /\ UNCHANGED <<users, properties, wishlists, reviews, offers>>

\* No try/catch around the insert.
ReviewsInsertOne(r) ==
    /\ req[r].pc = "reviews.insertOne"
    /\ HasFreeSlot(reviews)
    /\ \E ok \in BOOLEAN :
          IF ok
          THEN /\ reviews' = insertOne(reviews, LiveEntry)
               /\ Respond(r, 201)
          ELSE /\ Escape(r)
               /\ UNCHANGED reviews
    /\ UNCHANGED <<users, properties, wishlists, offers>>

DeleteReviews(r) ==
    /\ \E h \in Headers, id \in ReviewIds :
          Receive(r, "DELETE /reviews/:id", h, id, NoBody)
    /\ UNCHANGED <<users, properties, wishlists, reviews, offers>>

\* No try/catch around the delete.
ReviewsDeleteOne(r) ==
    /\ req[r].pc = "reviews.deleteOne"
    /\ \E ok \in BOOLEAN :
          IF ok
          THEN /\ reviews' = deleteOne(reviews, req[r].id, GoneEntry)
               /\ IF DeletedCount(reviews, req[r].id) > 0
                  THEN Respond(r, 200) ELSE Respond(r, 404)
          ELSE /\ Escape(r)
               /\ UNCHANGED reviews
    /\ UNCHANGED <<users, properties, wishlists, offers>>

(* ------------------------------ offers -------------------------------- *)
PostOffers(r) ==
    /\ \E h \in Headers, b \in OfferBodies :
          Receive(r, "POST /offers", h, NoId, b)
    /\ UNCHANGED <<users, properties, wishlists, reviews, offers>>

\* The document insertOne stores for a POST /offers body.
OfferFromBody_ForcedPending(body) == OfferDoc(body.propertyId, "pending")
OfferFromBody(body) == [OfferDoc(body.propertyId, body.status) EXCEPT
                            !.transactionId = body.transactionId]

OffersInsertOne(r) ==
    /\ req[r].pc = "offers.insertOne"
    /\ HasFreeSlot(offers)
    /\ \E ok \in BOOLEAN :
          IF ok
          THEN /\ offers' = insertOne(offers, OfferFromBody(req[r].body))
               /\ Respond(r, 201)
          ELSE /\ Respond(r, 500)
               /\ UNCHANGED offers
    /\ UNCHANGED <<users, properties, wishlists, reviews>>

PatchOffersAccept(r) ==
    /\ \E h \in Headers, id \in OfferIds :
          Receive(r, "PATCH /offers/accept/:id", h, id, NoBody)
    /\ UNCHANGED <<users, properties, wishlists, reviews, offers>>

AcceptFindOne(r) ==
    /\ req[r].pc = "accept.findOne"
    /\ \E ok \in BOOLEAN :
          IF ok /\ Matches(offers, req[r].id)
          THEN req' = [req EXCEPT ![r].pc = "accept.updateOne",
                                  ![r].propertyId = offers[req[r].id].propertyId]
          ELSE Respond(r, 500)   \* rejected call, or acceptedOffer is null
    /\ UNCHANGED <<users, properties, wishlists, reviews, offers>>

AcceptUpdateOne(r) ==
    /\ req[r].pc = "accept.updateOne"
    /\ \E ok \in BOOLEAN :
          IF ok
          THEN /\ offers' = SetStatus(offers, req[r].id, "accepted")
               /\ req' = [req EXCEPT ![r].pc = "accept.updateMany",
                                     ![r].modifiedCount = ModifiedCount(offers, offers')]
          ELSE /\ Respond(r, 500)
               /\ UNCHANGED offers
    /\ UNCHANGED <<users, properties, wishlists, reviews>>

\* updateMany({propertyId, _id: {$ne: id}}, {$set: {status: "rejected"}})
RejectOthers_AnyProperty(coll, propertyId, id) ==
    [i \in DOMAIN coll |->
        IF coll[i].st = Live /\ i # id
        THEN [coll[i] EXCEPT !.status = "rejected"]
        ELSE coll[i]]
RejectOthers(coll, propertyId, id) ==
    [i \in DOMAIN coll |->
        IF coll[i].st = Live /\ coll[i].propertyId = propertyId /\ i # id
        THEN [coll[i] EXCEPT !.status = "rejected"]
        ELSE coll[i]]

AcceptUpdateMany(r) ==
    /\ req[r].pc = "accept.updateMany"
    /\ \E ok \in BOOLEAN :
          IF ok
          THEN /\ offers' = RejectOthers(offers, req[r].propertyId, req[r].id)
               /\ IF req[r].modifiedCount = 0 THEN Respond(r, 404) ELSE Respond(r, 200)
          ELSE /\ Respond(r, 500)
               /\ UNCHANGED offers
    /\ UNCHANGED <<users, properties, wishlists, reviews>>

PatchOffersReject(r) ==
    /\ \E h \in Headers, id \in OfferIds :
          Receive(r, "PATCH /offers/reject/:id", h, id, NoBody)
    /\ UNCHANGED <<users, properties, wishlists, reviews, offers>>

RejectUpdateOne(r) ==
    /\ req[r].pc = "reject.updateOne"
    /\ \E ok \in BOOLEAN :
          IF ok
          THEN /\ offers' = SetStatus(offers, req[r].id, "rejected")
               /\ IF ModifiedCount(offers, offers') = 0
                  THEN Respond(r, 404) ELSE Respond(r, 200)
          ELSE /\ Respond(r, 500)
               /\ UNCHANGED offers
    /\ UNCHANGED <<users, properties, wishlists, reviews>>

PatchOffersBought(r) ==
    /\ \E h \in Headers, id \in OfferIds, b \in BoughtBodies :
          Receive(r, "PATCH /offers/:id", h, id, b)
    /\ UNCHANGED <<users, properties, wishlists, reviews, offers>>

\* updateOne({_id}, {$set: {status: "bought", transactionId}})
SetBought(coll, id, transactionId) ==
    IF Matches(coll, id)
    THEN [coll EXCEPT ![id].status = "bought", ![id].transactionId = transactionId]
    ELSE coll

BoughtUpdateOne(r) ==
    /\ req[r].pc = "bought.updateOne"
    /\ \E ok \in BOOLEAN :
          IF ok
          THEN /\ offers' = SetBought(offers, req[r].id, req[r].body.transactionId)
               /\ IF ModifiedCount(offers, offers') = 0
                  THEN Respond(r, 404) ELSE Respond(r, 200)
          ELSE /\ Respond(r, 500)
               /\ UNCHANGED offers
    /\ UNCHANGED <<users, properties, wishlists, reviews>>

(* --------------------------- end of a request ------------------------- *)
\* The response is on the wire; the connection takes the next request.
Finish(r) ==
    /\ req[r].pc = "done"
    /\ req' = [req EXCEPT ![r] = IdleReq]
    /\ UNCHANGED <<users, properties, wishlists, reviews, offers>>

\* The rejection reaches the framework: Express 5 forwards it to its default
\* error handler, which answers 500.
DefaultErrorHandler(r) ==
    /\ req[r].pc = "escaped"
    /\ req' = [req EXCEPT ![r].pc = "done", ![r].status = 500, ![r].by = "framework"]
    /\ UNCHANGED <<users, properties, wishlists, reviews, offers>>

\* Express 4 never sees the rejection: the request gets no response and the
\* client gives up.
Abandon(r) ==
    /\ req[r].pc = "escaped"
    /\ req' = [req EXCEPT ![r] = IdleReq]
    /\ UNCHANGED <<users, properties, wishlists, reviews, offers>>

\* Node's default for an unhandled rejection: the process exits, every request
\* in flight is dropped; the database keeps what was written.
ProcessExit ==
    /\ \E r \in Reqs : req[r].pc = "escaped"
    /\ req' = [r \in Reqs |-> IdleReq]
    /\ UNCHANGED <<users, properties, wishlists, reviews, offers>>

(* ------------------------------- Init --------------------------------- *)
\* The database the server is started on: an admin and an agent are registered
\* (POST /users stores the role its body carries), the agent without a
\* Firebase uid; the buyer holds a token and no record.  Nothing else is stored.
SeedUsers ==
    [i \in UserIds |->
        CASE i = 1 -> UserDoc("admin@x", "admin", TRUE)
          [] i = 2 -> UserDoc("agent@x", "agent", FALSE)
          [] OTHER -> NoUser]

Init ==
    /\ users = SeedUsers
    /\ properties = [i \in PropertyIds |-> NoProperty]
    /\ wishlists = [i \in WishlistIds |-> NoEntry]
    /\ reviews = [i \in ReviewIds |-> NoEntry]
    /\ offers = [i \in OfferIds |-> NoOffer]
    /\ req = [r \in Reqs |-> IdleReq]

OfferNext ==
    \/ \E r \in Reqs :
          \/ PostOffers(r)
          \/ OffersInsertOne(r)
          \/ PatchOffersAccept(r)
          \/ PatchOffersReject(r)
          \/ verifyAgent(r)
          \/ AcceptFindOne(r)
          \/ AcceptUpdateOne(r)
          \/ AcceptUpdateMany(r)
          \/ RejectUpdateOne(r)
          \/ PatchOffersBought(r)
          \/ BoughtUpdateOne(r)
          \/ Finish(r)
          \/ DefaultErrorHandler(r)
          \/ Abandon(r)
    \/ ProcessExit

OfferSpec == Init /\ [][OfferNext]_vars

\* Registration only: POST /users requests racing each other.
RegisterNext ==
    \E r \in Reqs :
       \/ PostUsers(r)
       \/ UsersFindOne(r)
       \/ UsersInsertOne(r)
       \/ Finish(r)

RegisterSpec == Init /\ [][RegisterNext]_vars

\* User administration: the guarded routes that change roles and delete
\* users, and a read-only route behind verifyAgent.
AdminNext ==
    \/ \E r \in Reqs :
          \/ PatchUsersAdmin(r)
          \/ PatchUsersAgent(r)
          \/ DeleteUsers(r)
          \/ GetAgentSold(r)
          \/ verifyAdmin(r)
          \/ verifyAgent(r)
          \/ AdminUpdateOne(r)
          \/ AgentUpdateOne(r)
          \/ DeleteFindOne(r)
          \/ DeleteFirebaseUser(r)
          \/ DeleteDeleteOne(r)
          \/ SoldFind(r)
          \/ Finish(r)
          \/ DefaultErrorHandler(r)
          \/ Abandon(r)
    \/ ProcessExit

AdminSpec == Init /\ [][AdminNext]_vars

\* The property listings.
PropertyNext ==
    \/ \E r \in Reqs :
          \/ PostProperties(r)
          \/ PutProperties(r)
          \/ DeleteProperties(r)
          \/ PatchPropertiesVerify(r)
          \/ PatchPropertiesReject(r)
          \/ PropertiesInsertOne(r)
          \/ PutUpdateOne(r)
          \/ PropertiesDeleteOne(r)
          \/ VerifyUpdateOne(r)
          \/ RejectPropertyUpdateOne(r)
          \/ Finish(r)
          \/ DefaultErrorHandler(r)
          \/ Abandon(r)
    \/ ProcessExit

PropertySpec == Init /\ [][PropertyNext]_vars

\* Wishlists and reviews.
ListNext ==
    \/ \E r \in Reqs :
          \/ PostWishlist(r)
          \/ DeleteWishlist(r)
          \/ PostReviews(r)
          \/ DeleteReviews(r)
          \/ WishlistInsertOne(r)
          \/ WishlistDeleteOne(r)
          \/ ReviewsInsertOne(r)
          \/ ReviewsDeleteOne(r)
          \/ Finish(r)
          \/ DefaultErrorHandler(r)
          \/ Abandon(r)
    \/ ProcessExit

ListSpec == Init /\ [][ListNext]_vars

\* The whole server: any request on any route.
Next == OfferNext \/ RegisterNext \/ AdminNext \/ PropertyNext \/ ListNext

Spec == Init /\ [][Next]_vars

\* Requests served one at a time: a request is taken up only when no other is
\* in flight, so every handler runs to completion before the next starts.
OneAtATime ==
    \A r \in Reqs : req[r].pc = "idle" /\ req'[r].pc # "idle"
                       => \A q \in Reqs : req[q].pc = "idle"

OfferSeqNext == OfferNext /\ OneAtATime

OfferSeqSpec == Init /\ [][OfferSeqNext]_vars

\* Clients that submit every offer with status "pending" (what the site's own
\* offer form sends), served one request at a time.
CreatedPending ==
    \A r \in Reqs : req[r].pc = "idle" /\ req'[r].pc = "offers.insertOne"
                       => req'[r].body.status = "pending"

OfferSeqPendingNext == OfferSeqNext /\ CreatedPending

OfferSeqPendingSpec == Init /\ [][OfferSeqPendingNext]_vars

(* ------------------------------ claims -------------------------------- *)
LiveOffers == {i \in OfferIds : offers[i].st = Live}
AcceptedOn(p) == {i \in LiveOffers : offers[i].propertyId = p /\ offers[i].status = "accepted"}

\* C1: in every reachable state, whatever the interleaving of create, accept,
\* reject and markBought requests, a property has at most one accepted offer.
C1_AtMostOneAccepted == \A p \in PropertyRefs : Cardinality(AcceptedOn(p)) <= 1

\* Request r takes a step of its accept handler.
AcceptStep(r) ==
    /\ req[r].pc \in {"accept.findOne", "accept.updateOne", "accept.updateMany"}
    /\ req'[r].pc \notin {req[r].pc, "idle"}

AllowedTransitions ==
    {<<"pending", "accepted">>, <<"pending", "rejected">>, <<"accepted", "bought">>}

\* C3: an offer's status only ever changes pending -> accepted, pending ->
\* rejected or accepted -> bought (so a bought offer was accepted before).
C3_OnlyAllowedTransitions ==
    [][\A i \in LiveOffers : offers'[i].status # offers[i].status
          => <<offers[i].status, offers'[i].status>> \in AllowedTransitions]_vars

\* C7: reject(id) on an existing offer, whatever its status, leaves it rejected
\* and modifies no other offer.
C7_RejectAlways ==
    [][\A r \in Reqs :
          /\ req[r].pc = "reject.updateOne"
          /\ req'[r].pc = "done" /\ req'[r].status # 500
          /\ Matches(offers, req[r].id)
          => /\ offers'[req[r].id].status = "rejected"
             /\ \A j \in OfferIds \ {req[r].id} : offers'[j] = offers[j]]_vars

\* A reject answered 200 and an offer that was bought before (it carries a
\* transaction id) is rejected now.
C7_Witness ==
    /\ \E r \in Reqs : /\ req[r].pc = "done"
                       /\ req[r].route = "PATCH /offers/reject/:id"
                       /\ req[r].status = 200
    /\ \E i \in LiveOffers : /\ offers[i].status = "rejected"
                             /\ offers[i].transactionId \in TransactionIds

\* The insert of POST /offers by request r.
Inserted(r, i) ==
    /\ req[r].pc = "offers.insertOne" /\ req'[r].pc = "done"
    /\ offers[i].st = Free /\ offers'[i].st = Live

\* C9 as stated: every offer POST /offers inserts is pending right after the
\* insert, whatever the body contains.
C9_InsertedPending ==
    [][\A r \in Reqs, i \in OfferIds : Inserted(r, i)
          => offers'[i].status = "pending"]_vars

\* C9 amended: the offer POST /offers inserts has the status its body carries
\* (pending when the body says pending); a 201 means one offer was inserted.
C9_InsertedAsSubmitted ==
    [][\A r \in Reqs :
          /\ \A i \in OfferIds : Inserted(r, i)
                => /\ offers'[i].status = req[r].body.status
                   /\ offers'[i].propertyId = req[r].body.propertyId
          /\ req[r].pc = "offers.insertOne" /\ req'[r].status = 201
                => \E i \in OfferIds : Inserted(r, i)]_vars

\* A POST /offers answered 201 and a pending offer is stored.
C9_Witness ==
    /\ \E r \in Reqs : /\ req[r].pc = "done"
                       /\ req[r].route = "POST /offers"
                       /\ req[r].status = 201
    /\ \E i \in LiveOffers : offers[i].status = "pending"

LiveUsers == {i \in UserIds : users[i].st = Live}

\* C4: a POST /users whose email is already stored is answered 400, and the
\* users collection never holds two records with the same email.
C4_UniqueEmails ==
    \A i, j \in LiveUsers : users[i].email = users[j].email => i = j

\* Request r takes a step of its own.
Steps(r) == req'[r] # req[r] /\ req[r].pc \notin {"idle", "done", "escaped"}

\* C5: a property's status changes only in a step of a request whose caller's
\* stored role is admin; a caller stored as user or agent changes none.
C5_StatusChangeAdminOnly ==
    [][\A i \in PropertyIds :
          /\ properties[i].st = Live /\ properties'[i].st = Live
          /\ properties'[i].status # properties[i].status
          => \E r \in Reqs : Steps(r) /\ GuardRole(req[r].decoded) = "admin"]_vars

\* The roles stored under an email, and the outcomes of a guard's check.
StoredRoles(email) == {users[i].role : i \in UsersWithEmail(email)}
GuardStep(r, guard) == req[r].pc = guard /\ req'[r].pc \notin {guard, "escaped", "idle"}
Passed(r) == req'[r] = [req[r] EXCEPT !.pc = Handler(req[r].route)]
Refused(r) == req'[r].pc = "done" /\ req'[r].status = 403

GuardDecides(r, guard, role) ==
    GuardStep(r, guard) =>
       /\ StoredRoles(req[r].decoded.email) = {role} => Passed(r)
       /\ role \notin StoredRoles(req[r].decoded.email) => Refused(r)
       /\ Passed(r) \/ Refused(r)

\* C6: a request passes verifyAdmin (verifyAgent) exactly when the role stored
\* for the token's email at the time of the check is admin (agent), whatever
\* role the token carries; otherwise it is answered 403.
C6_GuardReadsStoredRole ==
    [][\A r \in Reqs : /\ GuardDecides(r, "verifyAdmin", "admin")
                       /\ GuardDecides(r, "verifyAgent", "agent")]_vars

\* A request is past verifyAdmin with a token that says another role: its
\* user was made admin after the token was issued.
C6_Witness ==
    \E r \in Reqs : /\ req[r].route \in AdminRoutes
                    /\ req[r].pc = Handler(req[r].route)
                    /\ req[r].decoded.role # "admin"
                    /\ GuardRole(req[r].decoded) = "admin"

\* C8: a delete whose id matches no document when the deletion is applied is
\* answered 404, never success (users, properties, wishlist entries, reviews).
DeleteOfMissing(r, pc, coll) ==
    req[r].pc = pc /\ req'[r].pc = "done" /\ req'[r].status # 500
       /\ ~Matches(coll, req[r].id)
C8_DeleteMissingIs404 ==
    [][\A r \in Reqs :
          \/ DeleteOfMissing(r, "delete.findOne", users)
          \/ DeleteOfMissing(r, "delete.deleteOne", users)
          \/ DeleteOfMissing(r, "properties.deleteOne", properties)
          \/ DeleteOfMissing(r, "wishlist.deleteOne", wishlists)
          \/ DeleteOfMissing(r, "reviews.deleteOne", reviews)
          => req'[r].status = 404]_vars

\* C10: a failed database call always ends in the handler's own 500 response;
\* no failure leaves a handler or guard uncaught.
C10_NoFailureEscapes ==
    \A r \in Reqs : /\ req[r].pc # "escaped"
                    /\ req[r].pc = "done" => req[r].by = "handler"

\* C11: when the identity provider's deleteUser fails during DELETE /users/:id
\* the handler still goes on to its deleteOne, and that step removes the
\* user's record and answers 200; the only error answer left to it is the 500
\* of a failed deleteOne, which leaves the collection as it was.
C11_FirebaseFailureSwallowed ==
    [][\A r \in Reqs :
          /\ (req[r].pc = "delete.deleteUser" /\ req'[r].pc \notin {"delete.deleteUser", "idle"})
                => (req'[r].pc = "delete.deleteOne" /\ users' = users)
          /\ (req[r].pc = "delete.deleteOne" /\ req[r].firebaseErr /\ req'[r].pc = "done")
                => \/ (req'[r].status = 200 /\ ~Matches(users', req[r].id))
                   \/ (req'[r].status = 500 /\ users' = users)]_vars

\* The seeded admin (the one record with a uid) was deleted with answer 200
\* although the identity provider's call had failed.
C11_Witness ==
    \E r \in Reqs : /\ req[r].pc = "done" /\ req[r].route = "DELETE /users/:id"
                    /\ req[r].firebaseErr /\ req[r].status = 200
                    /\ users[1].st = Gone

\* C12: a request to a guarded route that arrives without an Authorization
\* header is answered 401; one whose token is expired, signed with another key
\* or missing after "Bearer" is answered 403; one that presents the token
\* jwt.sign made from a user's email and role goes on to the route's next
\* middleware with exactly that email and role as req.decoded.  The arrival
\* changes no collection, and a refused request takes no further step but the
\* end of its response.
Arrives(r) == req[r].pc = "idle" /\ req'[r].pc # "idle"
Answered(r, code) == req'[r].pc = "done" /\ req'[r].status = code /\ req'[r].by = "handler"
C12_VerifyToken ==
    [][\A r \in Reqs :
          /\ (Arrives(r) /\ req'[r].route \notin OpenRoutes)
                => LET h == req'[r].authorization IN
                   /\ <<users, properties, wishlists, reviews, offers>>'
                         = <<users, properties, wishlists, reviews, offers>>
                   /\ (h = NoHeader) => Answered(r, 401)
                   /\ (h = Bearer(NoToken)) => Answered(r, 403)
                   /\ \A c \in Claims :
                         /\ (h = Bearer(jwtSign(c, JwtSecret)))
                               => /\ req'[r].pc = AfterToken(req'[r].route)
                                  /\ req'[r].decoded = c
                         /\ (h = Bearer(Expire(jwtSign(c, JwtSecret))))
                               => Answered(r, 403)
                         /\ \A k \in Keys \ {JwtSecret} :
                               (h = Bearer(jwtSign(c, k))) => Answered(r, 403)
          /\ (req[r].pc = "done" /\ req[r].status \in {401, 403})
                => req'[r] \in {req[r], IdleReq}]_vars

\* One request was refused for its expired token while another, presenting the
\* admin's token, waits at verifyAdmin with the admin's email and role.
C12_Witness ==
    \E r1, r2 \in Reqs :
       /\ req[r1].pc = "done" /\ req[r1].status = 403
       /\ req[r1].authorization.present /\ req[r1].authorization.token.expired
       /\ req[r2].pc = "verifyAdmin"
       /\ req[r2].authorization = Bearer(jwtSign([email |-> "admin@x", role |-> "admin"], JwtSecret))
       /\ req[r2].decoded = [email |-> "admin@x", role |-> "admin"]

\* C13: with requests served one at a time and every offer created pending,
\* whenever no request is in the middle of its handler each property has at
\* most one accepted offer.
Quiescent == \A r \in Reqs : req[r].pc \in {"idle", "done"}
C13_AtMostOneAcceptedWhenQuiescent ==
    Quiescent => \A p \in PropertyRefs : Cardinality(AcceptedOn(p)) <= 1

\* C14: a step of the accept handler that answers 404 or 500 changes no
\* offer, and the request has changed none before it (its updateOne modified
\* nothing).
C14_ErrorAnswerChangesNothing ==
    [][\A r \in Reqs :
          (AcceptStep(r) /\ req'[r].pc = "done" /\ req'[r].status \in {404, 500})
             => (offers' = offers /\ req[r].modifiedCount = 0)]_vars

====
